---- MODULE Spec2Model ----
(***************************************************************************)
(* Model of the deoplete "snowflake" completion source                     *)
(* (rplugin/python3/deoplete/source/snowflake.py).                         *)
(*                                                                         *)
(* Text is modelled as a sequence of one-character strings, so that the    *)
(* regular expressions, str.split, str.strip, str.upper and the sort of    *)
(* the candidates are computed character by character as Python does.     *)
(* A dict is modelled as a sequence of <<key, value>> pairs in insertion   *)
(* order (Python dicts iterate in insertion order).                        *)
(***************************************************************************)
EXTENDS Integers, Sequences, FiniteSets, TLC

VARIABLES
    cache,      \* self._cache: [databases, tables]
    file,       \* the pickle at CACHE_PICKLE: [state, content, age]
    input,      \* context["input"] of the last request
    doc,        \* the buffer text (getlines joined by "\n") of the last request
    result,     \* what the last gather_candidates returned or raised
    queries,    \* the queries the last request handed to _execute_query
    wrote,      \* whether the last request wrote the pickle
    path,       \* branch the last request took in _make_cache
    streak,     \* consecutive requests that called _cache_db (capped at MaxStreak)
    position    \* what the last get_complete_position returned

vars == <<cache, file, input, doc, result, queries, wrote, path, streak, position>>

----------------------------------------------------------------------------
(* Characters and text                                                     *)

LowerLetters == <<"a","b","c","d","e","f","g","h","i","j","k","l","m",
                  "n","o","p","q","r","s","t","u","v","w","x","y","z">>

UpperLetters == <<"A","B","C","D","E","F","G","H","I","J","K","L","M",
                  "N","O","P","Q","R","S","T","U","V","W","X","Y","Z">>

DigitChars == <<"0","1","2","3","4","5","6","7","8","9">>

\* The characters in code point order (the part of ASCII the model uses).
Ascii == <<"\n", " ", "+", ",", "-", ".">> \o DigitChars \o UpperLetters
            \o <<"[", "]", "_">> \o LowerLetters \o <<"|">>

Range(s) == {s[i] : i \in 1..Len(s)}

\* \w of the re module
WordChars == Range(LowerLetters) \cup Range(UpperLetters) \cup Range(DigitChars) \cup {"_"}

\* \s of the re module
SpaceChars == {" ", "\n"}

CodeOf == [c \in Range(Ascii) |-> CHOOSE i \in 1..Len(Ascii) : Ascii[i] = c]

UpperOf == [c \in Range(Ascii) |->
              IF c \in Range(LowerLetters)
              THEN UpperLetters[CHOOSE i \in 1..26 : LowerLetters[i] = c]
              ELSE c]

\* str.upper()
Upper(s) == [i \in 1..Len(s) |-> UpperOf[s[i]]]

RECURSIVE LStrip(_)
LStrip(s) == IF s # <<>> /\ Head(s) \in SpaceChars THEN LStrip(Tail(s)) ELSE s

RECURSIVE RStrip(_)
RStrip(s) == IF s # <<>> /\ s[Len(s)] \in SpaceChars
             THEN RStrip(SubSeq(s, 1, Len(s) - 1)) ELSE s

\* str.strip()
Strip(s) == RStrip(LStrip(s))

\* str.split(sep) for a one-character separator: the pieces between the
\* separators, Cut(k) being the place of the k-th separator
Split(s, sep) ==
    LET seps == {i \in 1..Len(s) : s[i] = sep}
        Cut(k) == IF k = 0 THEN 0
                  ELSE IF k > Cardinality(seps) THEN Len(s) + 1
                  ELSE CHOOSE i \in seps : Cardinality({j \in seps : j <= i}) = k
    IN [k \in 1..(Cardinality(seps) + 1) |-> SubSeq(s, Cut(k - 1) + 1, Cut(k) - 1)]

\* a < b for str (code point by code point, a proper prefix is smaller)
RECURSIVE TextLess(_, _)
TextLess(a, b) ==
    IF b = <<>> THEN FALSE
    ELSE IF a = <<>> THEN TRUE
    ELSE IF Head(a) = Head(b) THEN TextLess(Tail(a), Tail(b))
    ELSE CodeOf[Head(a)] < CodeOf[Head(b)]

\* end (exclusive) of the longest run of \w characters starting at i
RECURSIVE WordEnd(_, _)
WordEnd(s, i) == IF i <= Len(s) /\ s[i] \in WordChars THEN WordEnd(s, i + 1) ELSE i

\* end (exclusive) of the longest run of \s characters starting at i
RECURSIVE SpaceEnd(_, _)
SpaceEnd(s, i) == IF i <= Len(s) /\ s[i] \in SpaceChars THEN SpaceEnd(s, i + 1) ELSE i

StartsAt(s, i, lit) == i + Len(lit) - 1 <= Len(s) /\ SubSeq(s, i, i + Len(lit) - 1) = lit

\* a group that did not take part in the match
None == <<"None">>

Truthy(g) == g # None /\ g # <<>>

NoMatch == [matched |-> FALSE]

----------------------------------------------------------------------------
(* The regular expressions                                                 *)

Keywords == {<<"F","R","O","M">>, <<"f","r","o","m">>,
             <<"J","O","I","N">>, <<"j","o","i","n">>}

KeywordAt(s, i) == \E k \in Keywords : StartsAt(s, i, k)

\* COLUMN_PATTERN.search(s): the leftmost \w+ run that a "." follows;
\* g1 is group(1).
RECURSIVE ColumnSearchFrom(_, _)
ColumnSearchFrom(s, i) ==
    IF i > Len(s) THEN NoMatch
    ELSE LET j == WordEnd(s, i)
         IN IF j > i /\ j <= Len(s) /\ s[j] = "."
            THEN [matched |-> TRUE, g1 |-> SubSeq(s, i, j - 1)]
            ELSE ColumnSearchFrom(s, i + 1)

COLUMN_PATTERN(s) == ColumnSearchFrom(s, 1)

\* table_regex.match at position i. g2, g7, g8 are group(2), group(7) and
\* group(8), i.e. groups()[1], groups()[6] and groups()[7].
TableMatchAt(s, i) ==
    IF ~KeywordAt(s, i) THEN NoMatch
    ELSE LET b == SpaceEnd(s, i + 4)
         IN IF b = i + 4 THEN NoMatch
            ELSE LET c == WordEnd(s, b)
                     dot1 == c > b /\ c <= Len(s) /\ s[c] = "."
                     d == WordEnd(s, c + 1)
                     dot2 == dot1 /\ d > c + 1 /\ d <= Len(s) /\ s[d] = "."
                     e == WordEnd(s, d + 1)
                 IN IF dot2
                    THEN [matched |-> TRUE, g2 |-> SubSeq(s, b, e - 1),
                          g7 |-> None, g8 |-> None]
                    ELSE IF dot1
                    THEN [matched |-> TRUE, g2 |-> SubSeq(s, b, d - 1),
                          g7 |-> SubSeq(s, c + 1, d - 1), g8 |-> None]
                    ELSE [matched |-> TRUE, g2 |-> SubSeq(s, b, c - 1),
                          g7 |-> None, g8 |-> SubSeq(s, b, c - 1)]

RECURSIVE TableSearchFrom(_, _)
TableSearchFrom(s, i) ==
    IF i > Len(s) THEN NoMatch
    ELSE LET m == TableMatchAt(s, i)
         IN IF m.matched THEN m ELSE TableSearchFrom(s, i + 1)

\* table_regex.search(s)
table_regex(s) == TableSearchFrom(s, 1)

\* The alias pattern of _make_cache at position i:
\* (FROM|JOIN|from|join)\s+(\w+)[.](\w+)([.](\w*))?\s+(\w*)
\* hit is the findall tuple's elements [2], [4], [5]; a group that took no
\* part is "" in findall. stop is the end (exclusive) of the match.
AliasMatchAt(s, i) ==
    IF ~KeywordAt(s, i) THEN NoMatch
    ELSE LET b == SpaceEnd(s, i + 4)
             c == WordEnd(s, b)
             d == WordEnd(s, c + 1)
             base == b > i + 4 /\ c > b /\ c <= Len(s) /\ s[c] = "." /\ d > c + 1
             opt == d <= Len(s) /\ s[d] = "."
             e == IF opt THEN WordEnd(s, d + 1) ELSE d
             f == SpaceEnd(s, e)
             g == WordEnd(s, f)
         IN IF base /\ f > e
            THEN [matched |-> TRUE, stop |-> g,
                  hit |-> [h2 |-> SubSeq(s, c + 1, d - 1),
                           h4 |-> IF opt THEN SubSeq(s, d + 1, e - 1) ELSE <<>>,
                           h5 |-> SubSeq(s, f, g - 1)]]
            ELSE NoMatch

\* re.findall: the non-overlapping matches, left to right
RECURSIVE AliasFindAll(_, _)
AliasFindAll(s, i) ==
    IF i > Len(s) THEN <<>>
    ELSE LET m == AliasMatchAt(s, i)
         IN IF m.matched THEN <<m.hit>> \o AliasFindAll(s, m.stop)
            ELSE AliasFindAll(s, i + 1)

\* parse_buffer_pattern(getlines(vim), pattern): the set of the hits
parse_buffer_pattern(s) == Range(AliasFindAll(s, 1))

----------------------------------------------------------------------------
(* What the editor hands over: the line up to the cursor, the buffer       *)

\* what the line holds before the text at the cursor
Prefixes ==
    { <<>>,
      <<"c","u","s",".","i","d"," ">>,
      <<"x"," ">> }

\* the text at the cursor
Endings ==
    { <<>>,
      <<"F","R","O","M"," ">>,
      <<"j","o","i","n"," "," ">>,
      <<"F","r","o","m"," ">>,
      <<"F","R","O","M"," ","D">>,
      <<"F","R","O","M"," ","D","A",".">>,
      <<"F","R","O","M"," ","D","A",".","P">>,
      <<"f","r","o","m"," ","d","a",".","p">>,
      <<"F","R","O","M"," ","d","a",".","p">>,
      <<"F","R","O","M"," ","D","A",".","P","U","B",".">>,
      <<"F","R","O","M"," ","D","A",".","P","U","B",".","O">>,
      <<"f","r","o","m"," ","d","a",".","p","u","b",".">>,
      <<"F","R","O","M"," ","d","a",".","p","u","b",".">>,
      <<"F","R","O","M"," ","D","B",".","R","A","W",".">>,
      <<"O","R","D",".">>,
      <<"o","r","d",".">>,
      <<"o","r","d",".","A">>,
      <<"o",".">>,
      <<"z","z",".">>,
      <<"F","R","O","M">> }

\* context["input"]: the line up to the cursor
Lines == {p \o e : p \in Prefixes, e \in Endings}

\* the lines of the requests that exercise the cache
FewLines ==
    { <<>>,
      <<"F","R","O","M"," ","D","A",".","P","U","B",".">>,
      <<"O","R","D",".">> }

\* the buffer, its lines joined by "\n"
Docs ==
    { <<>>,
      <<"s","e","l","e","c","t"," ","o",".","i","d"," ","F","R","O","M"," ","D","A",".","P","U","B",".","O","R","D"," ","o">>,
      <<"f","r","o","m"," ","D","A",".","P","U","B",".","C","U","S"," ","o","r","d","\n","j","o","i","n"," ","D","A",".","P","U","B",".","O","R","D"," ","o">>,
      <<"F","r","o","m"," ","D","A",".","P","U","B",".","O","R","D"," ","o">>,
      <<"F","R","O","M"," ","D","A",".","P","U","B",".","O","R","D"," ","o">> }

\* the two scans of gather_candidates (lines 55-59), line by line
Scans == [line \in Lines |->
             [column_match |-> COLUMN_PATTERN(line), table_match |-> table_regex(line)]]

\* the alias hits (lines 172-174), buffer by buffer
AliasHits == [text \in Docs |-> parse_buffer_pattern(text)]

----------------------------------------------------------------------------
(* dict, as a sequence of <<key, value>> pairs in insertion order         *)

Keys(d) == [i \in 1..Len(d) |-> d[i][1]]

Has(d, k) == \E i \in 1..Len(d) : d[i][1] = k

\* d.get(k, default)
Get(d, k, default) ==
    IF Has(d, k) THEN d[CHOOSE i \in 1..Len(d) : d[i][1] = k][2] ELSE default

\* d[k] = v
Put(d, k, v) ==
    IF Has(d, k)
    THEN [i \in 1..Len(d) |-> IF d[i][1] = k THEN <<k, v>> ELSE d[i]]
    ELSE Append(d, <<k, v>>)

InList(l, x) == \E i \in 1..Len(l) : l[i] = x

----------------------------------------------------------------------------
(* The external query tool (snowsql) and what it prints                    *)

\* one printed table row: "| f1 | f2 | ... |"
RECURSIVE Cells(_)
Cells(fields) ==
    IF fields = <<>> THEN <<>>
    ELSE <<" ">> \o Head(fields) \o <<" ", "|">> \o Cells(Tail(fields))

TableRow(fields) == <<"|">> \o Cells(fields)

RECURSIVE JoinLines(_)
JoinLines(ls) ==
    IF ls = <<>> THEN <<>>
    ELSE IF Len(ls) = 1 THEN Head(ls)
    ELSE Head(ls) \o <<"\n">> \o JoinLines(Tail(ls))

DA == <<"D","A">>
DB == <<"D","B">>
PUB == <<"P","U","B">>
RAW == <<"R","A","W">>
ORD == <<"O","R","D">>
CUS == <<"C","U","S">>
LOG == <<"L","O","G">>
ID == <<"I","D">>
AMT == <<"A","M","T">>
TS == <<"T","S">>
NUM == <<"N","U","M">>
ZERO == <<"0">>

\* the banner, the rule and the column names: the lines _execute_query skips
Banner(names) ==
    << <<"-","-">>, <<"-","-">>, <<"+","-","+">>, TableRow(names) >>

Rule == <<"|", "-", "+", "-", "|">>

Footer == << <<"+","-","+">>, <<"1"," ","r","o","w">>, <<>> >>

Y == <<"y">>

DbHeader == <<Y, Y, Y, Y, Y>>

ColHeader == <<Y, Y, Y, Y, Y, Y>>

\* SHOW DATABASES: created_on, name, is_default, is_current, origin
DbListing ==
    JoinLines(Banner(DbHeader) \o
              << Rule, TableRow(<<Y, DA, Y, Y, <<>> >>),
                 TableRow(<<Y, DB, Y, Y, <<>> >>) >> \o Footer)

ColRow(db, schema, table, name, default, type) ==
    TableRow(<<db, schema, table, name, default, type>>)

\* a row cut short: 3 fields
Row3 == <<"|"," ","D","A"," ","|">>

\* a row cut short: 6 fields, one fewer than the ingestion reads
Row6 == <<"|">> \o Cells(<<DA, PUB, ORD, AMT>>) \o <<" ", "0">>

ColsDA(extra) ==
    JoinLines(Banner(ColHeader) \o
              << Rule, ColRow(DA, PUB, ORD, ID, <<>>, NUM) >> \o extra \o
              << ColRow(DA, PUB, ORD, AMT, ZERO, NUM),
                 ColRow(DA, PUB, CUS, ID, ZERO, NUM) >> \o Footer)

ColsDB ==
    JoinLines(Banner(ColHeader) \o << Rule, ColRow(DB, RAW, LOG, TS, <<>>, TS) >> \o Footer)

Ok(out) == [kind |-> "ok", out |-> out]
\* non-zero exit: subprocess.check_output raises CalledProcessError
Exit == [kind |-> "exit", out |-> <<>>]
\* the program cannot be started: subprocess.check_output raises OSError
Spawn == [kind |-> "spawn", out |-> <<>>]

Behaviour(dbs, da, db) == [dbs |-> dbs, cols |-> << <<DA, da>>, <<DB, db>> >>]

ToolOk == Behaviour(Ok(DbListing), Ok(ColsDA(<<>>)), Ok(ColsDB))
ToolShortRow == Behaviour(Ok(DbListing), Ok(ColsDA(<<Row3>>)), Ok(ColsDB))
ToolSixFields == Behaviour(Ok(DbListing), Ok(ColsDA(<<Row6>>)), Ok(ColsDB))
ToolExit == Behaviour(Exit, Exit, Exit)
ToolColsExit == Behaviour(Ok(DbListing), Exit, Ok(ColsDB))
ToolSpawn == Behaviour(Spawn, Spawn, Spawn)
ToolColsSpawn == Behaviour(Ok(DbListing), Ok(ColsDA(<<>>)), Spawn)

Tools == {ToolOk, ToolShortRow, ToolSixFields, ToolExit, ToolColsExit, ToolSpawn,
          ToolColsSpawn}

HeaderLines == 4

MinFields == 5

\* _execute_query without the except clause of lines 102-103
ExecuteQueryExitRaises(outcome) ==
    IF outcome.kind = "spawn" THEN [err |-> "OSError", rows |-> <<>>]
    ELSE IF outcome.kind = "exit" THEN [err |-> "CalledProcessError", rows |-> <<>>]
    ELSE LET command_results == Split(outcome.out, "\n")
             rest == SubSeq(command_results, HeaderLines + 1, Len(command_results))
             Wide(row) == Len(Split(row, "|")) > MinFields
         IN [err |-> "none", rows |-> SelectSeq(rest, Wide)]

\* _execute_query: the rows it yields, or the exception it lets through
_execute_query(outcome) ==
    IF outcome.kind = "spawn" THEN [err |-> "OSError", rows |-> <<>>]
    ELSE IF outcome.kind = "exit" THEN [err |-> "none", rows |-> <<>>]
    ELSE LET command_results == Split(outcome.out, "\n")
             rest == SubSeq(command_results, HeaderLines + 1, Len(command_results))
             Wide(row) == Len(Split(row, "|")) > MinFields
         IN [err |-> "none", rows |-> SelectSeq(rest, Wide)]

----------------------------------------------------------------------------
(* The catalog cache                                                       *)

\* {"tables": {}, "databases": {}}
EmptyCache == [databases |-> <<>>, tables |-> <<>>]

\* tables.get(table, {}) of a table not seen before. A table's value is
\* {"columns": [...], "aliases": [...]}; hasAliases tells whether the
\* "aliases" key is there. The aliases list never holds an element twice and
\* its order is never observable (the candidates are sorted by word), so it
\* is kept as a set.
NewTable == [columns |-> <<>>, aliases |-> {}, hasAliases |-> FALSE]

\* a command handed to _execute_query, and how the tool ended
ShowDatabases(outcome) ==
    [query |-> "SHOW DATABASES", dbname |-> <<>>, outcome |-> outcome.kind]

TableQuery(dbname, outcome) ==
    [query |-> "TABLE_QUERY", dbname |-> dbname, outcome |-> outcome.kind]

Outcomes == {t.dbs : t \in Tools} \cup {t.cols[i][2] : t \in Tools, i \in 1..2}

\* what _execute_query gives, outcome by outcome
Yielded == [outcome \in Outcomes |-> _execute_query(outcome)]

\* lines 120-123: one database per row
RECURSIVE AddDatabases(_, _)
AddDatabases(databases, rows) ==
    IF rows = <<>> THEN databases
    ELSE LET dbname == Strip(Split(Head(rows), "|")[3])
         IN AddDatabases(IF Has(databases, dbname) THEN databases
                         ELSE Put(databases, dbname, <<>>),
                         Tail(rows))

\* IngestSplit without lines 141-145: the table is listed under its schema
\* and not entered in the table mapping
IngestSplitListsOnly(c, dbname, row_split) ==
    LET schema == row_split[3]
        table == row_split[4]
        schemas == Get(c.databases, dbname, <<>>)
        listed == Get(schemas, schema, <<>>)
        listed2 == IF InList(listed, table) THEN listed ELSE Append(listed, table)
    IN [cache |-> [databases |-> Put(c.databases, dbname, Put(schemas, schema, listed2)),
                   tables |-> c.tables],
        err |-> "none"]

\* lines 134-145 for one row already split and stripped: the cache after the
\* row, and the exception the row raised (the assignments before the failing
\* subscript have happened)
IngestSplit(c, dbname, row_split) ==
    LET schema == row_split[3]
        table == row_split[4]
        schemas == Get(c.databases, dbname, <<>>)
        listed == Get(schemas, schema, <<>>)
        listed2 == IF InList(listed, table) THEN listed ELSE Append(listed, table)
        databases2 == Put(c.databases, dbname, Put(schemas, schema, listed2))
        entry == Get(c.tables, table, NewTable)
    IN IF Len(row_split) < 7
       THEN [cache |-> [databases |-> databases2, tables |-> Put(c.tables, table, entry)],
             err |-> "IndexError"]
       ELSE [cache |-> [databases |-> databases2,
                        tables |-> Put(c.tables, table,
                                       [entry EXCEPT !.columns =
                                           Append(@, [name |-> row_split[5],
                                                      default |-> row_split[6],
                                                      type |-> row_split[7]])])],
             err |-> "none"]

\* line 133: [x.strip() for x in row.split("|")]
StripAll(fields) == [i \in 1..Len(fields) |-> Strip(fields[i])]

\* lines 133-145 for one row
IngestRow(c, dbname, row) == IngestSplit(c, dbname, StripAll(Split(row, "|")))

RECURSIVE IngestRows(_, _, _)
IngestMore(r, dbname, rows) ==
    IF r.err # "none" THEN r ELSE IngestRows(r.cache, dbname, rows)

IngestRows(c, dbname, rows) ==
    IF rows = <<>> THEN [cache |-> c, err |-> "none"]
    ELSE IngestMore(IngestRow(c, dbname, Head(rows)), dbname, Tail(rows))

\* lines 127-145: the loop over the databases, from the i-th on
RECURSIVE IngestDatabases(_, _, _, _, _)
IngestNext(r, names, i, tool, asked) ==
    IF r.err # "none" THEN [cache |-> r.cache, err |-> r.err, queries |-> asked]
    ELSE IngestDatabases(r.cache, names, i + 1, tool, asked)

IngestDatabases(c, names, i, tool, asked) ==
    IF i > Len(names) THEN [cache |-> c, err |-> "none", queries |-> asked]
    ELSE LET q == Yielded[Get(tool.cols, names[i], Exit)]
             asked2 == Append(asked, TableQuery(names[i], Get(tool.cols, names[i], Exit)))
         IN IF q.err # "none" THEN [cache |-> c, err |-> q.err, queries |-> asked2]
            ELSE IngestNext(IngestRows(c, names[i], q.rows), names, i, tool, asked2)

\* FillTables without the test of line 126
FillTablesAlways(c, tool, asked) ==
    IngestDatabases(c, Keys(c.databases), 1, tool, asked)

\* lines 126-145
FillTables(c, tool, asked) ==
    IF c.tables = <<>> THEN IngestDatabases(c, Keys(c.databases), 1, tool, asked)
    ELSE [cache |-> c, err |-> "none", queries |-> asked]

\* CacheDbFill without the test of line 117
CacheDbFillAlways(c, tool) ==
    LET q == Yielded[tool.dbs]
    IN IF q.err # "none"
       THEN [cache |-> c, err |-> q.err, queries |-> <<ShowDatabases(tool.dbs)>>]
       ELSE FillTables([c EXCEPT !.databases = AddDatabases(@, q.rows)], tool,
                       <<ShowDatabases(tool.dbs)>>)

\* _cache_db up to the write of the pickle (lines 113-145)
CacheDbFill(c, tool) ==
    IF c.databases # <<>> THEN FillTables(c, tool, <<>>)
    ELSE LET q == Yielded[tool.dbs]
         IN IF q.err # "none"
            THEN [cache |-> c, err |-> q.err, queries |-> <<ShowDatabases(tool.dbs)>>]
            ELSE FillTables([c EXCEPT !.databases = AddDatabases(@, q.rows)], tool,
                            <<ShowDatabases(tool.dbs)>>)

FreshFile(content) == [state |-> "valid", content |-> content, age |-> 0]

\* lines 146-147: the pickle is written unless an exception came first
WritePickle(r, f) ==
    [cache |-> r.cache, err |-> r.err, queries |-> r.queries,
     file |-> IF r.err = "none" THEN FreshFile(r.cache) ELSE f,
     wrote |-> r.err = "none", path |-> "rebuild"]

\* _cache_db: the cache, the pickle, the queries asked, the exception raised
_cache_db(c, f, tool) == WritePickle(CacheDbFill(c, tool), f)

----------------------------------------------------------------------------
(* _make_cache                                                             *)

\* the pickle's age is counted in ticks of 1 / TicksPerDay of a day
TicksPerDay == 2

MaxAge == TicksPerDay

\* timedelta.days of the pickle's age
Days(age) == age \div TicksPerDay

\* line 181: alias_hit[4].upper() or alias_hit[2].upper()
AliasTable(hit) == IF Upper(hit.h4) # <<>> THEN Upper(hit.h4) ELSE Upper(hit.h2)

\* lines 177-187: every table's aliases are reset, then each hit whose table
\* is a key of the table mapping adds its alias
SetAliases(tables, hits) ==
    [i \in 1..Len(tables) |->
        <<tables[i][1],
          [tables[i][2] EXCEPT
              !.aliases = {Upper(h.h5) : h \in {x \in hits : AliasTable(x) = tables[i][1]}},
              !.hasAliases = TRUE]>>]

\* LoadOrRebuild with line 162 not assigning self._cache
LoadOrRebuildKeepsMemory(c, f, tool) ==
    IF f.state # "missing" /\ Days(f.age) < 1
    THEN [cache |-> c, err |-> IF f.state = "corrupt" THEN "UnpicklingError" ELSE "none",
          queries |-> <<>>, file |-> f, wrote |-> FALSE, path |-> "load"]
    ELSE _cache_db(c, f, tool)

\* lines 151-164: the pickle is loaded, or _cache_db runs
LoadOrRebuild(c, f, tool) ==
    LET file_exists == f.state # "missing"
        file_created_ago == IF file_exists THEN Days(f.age) ELSE 0
    IN IF file_exists /\ file_created_ago < 1
       THEN IF f.state = "corrupt"
            THEN [cache |-> c, err |-> "UnpicklingError", queries |-> <<>>,
                  file |-> f, wrote |-> FALSE, path |-> "load"]
            ELSE [cache |-> f.content, err |-> "none", queries |-> <<>>,
                  file |-> f, wrote |-> FALSE, path |-> "load"]
       ELSE _cache_db(c, f, tool)

\* lines 172-187
GatherAliases(r, text) ==
    IF r.err # "none" THEN r
    ELSE [r EXCEPT !.cache.tables = SetAliases(@, AliasHits[text])]

_make_cache(c, f, tool, text) == GatherAliases(LoadOrRebuild(c, f, tool), text)

----------------------------------------------------------------------------
(* gather_candidates                                                       *)

RECURSIVE ConcatAll(_)
ConcatAll(ss) == IF ss = <<>> THEN <<>> ELSE Head(ss) \o ConcatAll(Tail(ss))

\* InsertByWord for a sort that is not stable: x is put before the elements
\* of equal word
InsertBeforeEqual(front, x) ==
    LET p == Cardinality({i \in 1..Len(front) : TextLess(front[i].word, x.word)})
    IN SubSeq(front, 1, p) \o <<x>> \o SubSeq(front, p + 1, Len(front))

\* x put behind the elements of the sorted list whose word is not greater
InsertByWord(front, x) ==
    LET p == Cardinality({i \in 1..Len(front) : ~TextLess(x.word, front[i].word)})
    IN SubSeq(front, 1, p) \o <<x>> \o SubSeq(front, p + 1, Len(front))

\* candidates.sort(key=operator.itemgetter("word")): a stable sort
RECURSIVE SortByWord(_)
SortByWord(cs) ==
    IF cs = <<>> THEN <<>>
    ELSE InsertByWord(SortByWord(SubSeq(cs, 1, Len(cs) - 1)), cs[Len(cs)])

\* some order of a list kept as a set
RECURSIVE ListOf(_)
ListOf(S) ==
    IF S = {} THEN <<>>
    ELSE LET x == CHOOSE y \in S : \A z \in S : ~TextLess(z, y)
         IN <<x>> \o ListOf(S \ {x})

\* a candidate; the keys a dict does not have are None
Candidate(word, menu, kind) == [word |-> word, menu |-> menu, kind |-> kind]

\* f"[DEFAULT {column_default} DATATYPE {column_type}]"
Menu(column) ==
    <<"[","D","E","F","A","U","L","T"," ">> \o column.default \o
    <<" ","D","A","T","A","T","Y","P","E"," ">> \o column.type \o <<"]">>

\* ColumnLookup with lines 65-66 comparing the token as typed
ColumnLookupAsTyped(c, table_or_alias) ==
    LET Hit(i) == c.tables[i][1] = table_or_alias
                  \/ table_or_alias \in c.tables[i][2].aliases
        Columns(i) == [j \in 1..Len(c.tables[i][2].columns) |->
                          Candidate(c.tables[i][2].columns[j].name,
                                    Menu(c.tables[i][2].columns[j]), "col")]
    IN IF \E i \in 1..Len(c.tables) : ~c.tables[i][2].hasAliases
       THEN [err |-> "KeyError", cands |-> <<>>]
       ELSE [err |-> "none",
             cands |-> ConcatAll([i \in 1..Len(c.tables) |->
                                     IF Hit(i) THEN Columns(i) ELSE <<>>])]

\* lines 63-76
ColumnLookup(c, table_or_alias) ==
    LET Hit(i) == c.tables[i][1] = Upper(table_or_alias)
                  \/ Upper(table_or_alias) \in c.tables[i][2].aliases
        Columns(i) == [j \in 1..Len(c.tables[i][2].columns) |->
                          Candidate(c.tables[i][2].columns[j].name,
                                    Menu(c.tables[i][2].columns[j]), "col")]
    IN IF \E i \in 1..Len(c.tables) : ~c.tables[i][2].hasAliases
       THEN [err |-> "KeyError", cands |-> <<>>]
       ELSE [err |-> "none",
             cands |-> ConcatAll([i \in 1..Len(c.tables) |->
                                     IF Hit(i) THEN Columns(i) ELSE <<>>])]

\* TableLookup without line 94-95: the aliases are left out
TableLookupNoAliases(c, qualifier) ==
    LET dbname_schema == Split(qualifier, ".")
        listed == Get(Get(c.databases, dbname_schema[1], <<>>), dbname_schema[2], <<>>)
    IN IF Len(dbname_schema) < 2 THEN [err |-> "IndexError", cands |-> <<>>]
       ELSE [err |-> "none",
             cands |-> [i \in 1..Len(listed) |-> Candidate(listed[i], None, "table or view")]]

\* lines 89-95
TableLookup(c, qualifier) ==
    LET dbname_schema == Split(qualifier, ".")
        listed == Get(Get(c.databases, dbname_schema[1], <<>>), dbname_schema[2], <<>>)
        Known(table) == Has(c.tables, table) /\ Get(c.tables, table, NewTable).hasAliases
        Entry(table) ==
            <<Candidate(table, None, "table or view")>> \o
            [j \in 1..Cardinality(Get(c.tables, table, NewTable).aliases) |->
                Candidate(ListOf(Get(c.tables, table, NewTable).aliases)[j], None, "alias")]
    IN IF Len(dbname_schema) < 2 THEN [err |-> "IndexError", cands |-> <<>>]
       ELSE IF \E i \in 1..Len(listed) : ~Known(listed[i])
            THEN [err |-> "KeyError", cands |-> <<>>]
            ELSE [err |-> "none",
                  cands |-> ConcatAll([i \in 1..Len(listed) |-> Entry(listed[i])])]

\* lines 80-95
TableBranch(c, table_match) ==
    IF Truthy(table_match.g8)
    THEN [err |-> "none",
          cands |-> [i \in 1..Len(c.databases) |->
                        Candidate(c.databases[i][1], None, "database")]]
    ELSE IF Truthy(table_match.g7)
    THEN LET schemas == Get(c.databases, Split(table_match.g2, ".")[1], <<>>)
         IN [err |-> "none",
             cands |-> [i \in 1..Len(schemas) |-> Candidate(schemas[i][1], None, "schema")]]
    ELSE TableLookup(c, table_match.g2)

NoCandidates == [err |-> "none", cands |-> <<>>]

\* lines 96-97, or the exception a branch raised
SortAndReturn(cols, tabs) ==
    IF cols.err # "none" THEN [status |-> "raise", err |-> cols.err, cands |-> <<>>]
    ELSE IF tabs.err # "none" THEN [status |-> "raise", err |-> tabs.err, cands |-> <<>>]
    ELSE [status |-> "return", err |-> "none", cands |-> SortByWord(cols.cands \o tabs.cands)]

\* Branches with line 60 reading "if column_match:"
BranchesColumnsAlways(c, column_match, table_match) ==
    SortAndReturn(IF column_match.matched
                  THEN ColumnLookup(c, column_match.g1)
                  ELSE NoCandidates,
                  IF table_match.matched THEN TableBranch(c, table_match)
                  ELSE NoCandidates)

\* lines 60-95
Branches(c, column_match, table_match) ==
    SortAndReturn(IF column_match.matched /\ ~table_match.matched
                  THEN ColumnLookup(c, column_match.g1)
                  ELSE NoCandidates,
                  IF table_match.matched THEN TableBranch(c, table_match)
                  ELSE NoCandidates)

\* lines 53-97, after _make_cache
Lookup(c, current_line) ==
    Branches(c, Scans[current_line].column_match, Scans[current_line].table_match)

----------------------------------------------------------------------------
(* The requests the editor makes                                           *)

NoResult == [status |-> "none", err |-> "none", cands |-> <<>>]

Min(a, b) == IF a < b THEN a ELSE b

MaxStreak == 2

\* no get_complete_position call has returned
NoPosition == [called |-> FALSE, at |-> 0]

\* re.search(r"\w*$", s).start(): the leftmost place from which \w* runs to
\* the end of s ($ also matches before a newline that ends s). The empty
\* match at the end of s always exists, so m is never None.
RECURSIVE TrailingSearchFrom(_, _)
TrailingSearchFrom(s, i) ==
    IF i > Len(s) THEN i
    ELSE IF WordEnd(s, i) > Len(s) \/ (WordEnd(s, i) = Len(s) /\ s[Len(s)] = "\n") THEN i
    ELSE TrailingSearchFrom(s, i + 1)

\* get_complete_position(context): m.start() if m else -1, offsets from 0
get_complete_position(s) == TrailingSearchFrom(s, 1) - 1

\* on_init
on_init ==
    /\ cache' = EmptyCache
    /\ input' = <<>>
    /\ doc' = <<>>
    /\ result' = NoResult
    /\ queries' = <<>>
    /\ wrote' = FALSE
    /\ path' = "none"
    /\ streak' = 0
    /\ position' = NoPosition

Init ==
    /\ cache = EmptyCache
    /\ file = [state |-> "missing", content |-> EmptyCache, age |-> 0]
    /\ input = <<>>
    /\ doc = <<>>
    /\ result = NoResult
    /\ queries = <<>>
    /\ wrote = FALSE
    /\ path = "none"
    /\ streak = 0
    /\ position = NoPosition

\* gather_candidates(context): one completion request, start to finish
gather_candidates(current_line, text, tool) ==
    \E m \in {_make_cache(cache, file, tool, text)} :
       /\ cache' = m.cache
       /\ file' = m.file
       /\ input' = current_line
       /\ doc' = text
       /\ queries' = m.queries
       /\ wrote' = m.wrote
       /\ path' = m.path
       /\ streak' = IF m.path = "rebuild" THEN Min(streak + 1, MaxStreak) ELSE 0
       /\ result' = IF m.err # "none"
                    THEN [status |-> "raise", err |-> m.err, cands |-> <<>>]
                    ELSE Lookup(m.cache, current_line)
       /\ UNCHANGED position

\* The host makes one request at a time: path is "none" between requests.
Request(lines, docs, tools) ==
    /\ path = "none"
    /\ \E text \in docs, tool \in tools, current_line \in lines :
           gather_candidates(current_line, text, tool)

\* the host has taken the candidates (or the exception)
Return ==
    /\ path # "none"
    /\ input' = <<>>
    /\ doc' = <<>>
    /\ result' = NoResult
    /\ queries' = <<>>
    /\ wrote' = FALSE
    /\ path' = "none"
    /\ UNCHANGED <<cache, file, streak, position>>

\* a new editor session: on_init runs again, the pickle stays
Restart ==
    /\ path = "none"
    /\ cache # EmptyCache \/ streak # 0
    /\ on_init
    /\ UNCHANGED file

\* time passes: the pickle grows older
Tick ==
    /\ path = "none"
    /\ file.state # "missing"
    /\ file.age < MaxAge
    /\ file' = [file EXCEPT !.age = @ + 1]
    /\ UNCHANGED <<cache, input, doc, result, queries, wrote, path, streak, position>>

\* the pickle is removed (the temporary directory is cleaned)
DeleteSnapshot ==
    /\ path = "none"
    /\ file.state # "missing"
    /\ file' = [state |-> "missing", content |-> EmptyCache, age |-> 0]
    /\ UNCHANGED <<cache, input, doc, result, queries, wrote, path, streak, position>>

\* the pickle is damaged (a write cut short, another writer)
CorruptSnapshot ==
    /\ path = "none"
    /\ file.state = "valid"
    /\ file' = [file EXCEPT !.state = "corrupt", !.content = EmptyCache]
    /\ UNCHANGED <<cache, input, doc, result, queries, wrote, path, streak, position>>

\* The life of the cache: every behaviour of the tool, a few lines.
Next ==
    \/ Request(FewLines, Docs, Tools)
    \/ Return
    \/ Restart
    \/ Tick
    \/ DeleteSnapshot
    \/ CorruptSnapshot

Spec == Init /\ [][Next]_vars

\* The lookup: every line, no ageing of the pickle.
NextLookup ==
    \/ Request(Lines, Docs, Tools)
    \/ Return
    \/ Restart
    \/ DeleteSnapshot

SpecLookup == Init /\ [][NextLookup]_vars

\* what a line can end in
Tails == {<<>>, <<" ">>, <<"_">>, <<"a", "1">>, <<",">>}

\* the lines get_complete_position is asked about
PositionLines == {line \o t : line \in Lines, t \in Tails}

\* the host asks where the text to complete starts
CompletePosition ==
    /\ path = "none"
    /\ \E line \in PositionLines :
           /\ input' = line
           /\ position' = [called |-> TRUE, at |-> get_complete_position(line)]
    /\ UNCHANGED <<cache, file, doc, result, queries, wrote, path, streak>>

NextPosition == CompletePosition

SpecPosition == Init /\ [][NextPosition]_vars

----------------------------------------------------------------------------
(* Properties                                                              *)

\* the last request got past _make_cache, to the lookup
ReachedLookup ==
    /\ path # "none"
    /\ IF path = "rebuild" THEN wrote ELSE result.err # "UnpicklingError"

Blanks == {<<" ">>, <<" ", " ">>}

IsWord(w) == \A i \in 1..Len(w) : w[i] \in WordChars

\* what follows the keyword and its blanks, when the line is
\* <prefix><keyword><blanks><qualifier>, cut at the dots
Qualifiers(line) ==
    {Split(SubSeq(line, Len(h) + 1, Len(line)), ".") :
        h \in {x \in {pre \o k \o ws : pre \in Prefixes, k \in Keywords, ws \in Blanks} :
                  StartsAt(line, 1, x)}}

\* how many candidates have this word and this kind
CountOf(cands, word, kind) ==
    Cardinality({j \in 1..Len(cands) : cands[j].word = word /\ cands[j].kind = kind})

Words(cands) == {cands[j].word : j \in 1..Len(cands)}

BareKeyword(line) == << <<>> >> \in Qualifiers(line)

\* C1: when the line up to the cursor is a bare FROM or JOIN followed only by
\* blanks, the request raises nothing and returns exactly one candidate of
\* kind database for every key of the database mapping.
C1_BareKeywordListsDatabases ==
    (ReachedLookup /\ BareKeyword(input)) =>
        /\ result.status = "return"
        /\ Len(result.cands) = Len(cache.databases)
        /\ \A i \in 1..Len(cache.databases) :
               CountOf(result.cands, cache.databases[i][1], "database") = 1

\* db.partialSchema, the partial schema possibly empty
SchemaQualifiers(line) ==
    {q \in Qualifiers(line) :
        Len(q) = 2 /\ q[1] # <<>> /\ IsWord(q[1]) /\ IsWord(q[2])}

\* C2: when the line up to the cursor has the shape db.partialSchema (the
\* partial schema may be empty, as in "FROM sales."), the request returns one
\* candidate of kind schema for every schema stored under that database, and
\* no other candidate.
C2_SchemaShapeListsSchemas ==
    \A q \in SchemaQualifiers(input) :
        ReachedLookup =>
            /\ result.status = "return"
            /\ Len(result.cands) = Len(Get(cache.databases, q[1], <<>>))
            /\ \A i \in 1..Len(Get(cache.databases, q[1], <<>>)) :
                   CountOf(result.cands, Get(cache.databases, q[1], <<>>)[i][1], "schema") = 1

\* db.schema.partialTable, the partial table possibly empty
TableQualifiers(line) ==
    {q \in Qualifiers(line) :
        /\ Len(q) = 3
        /\ q[1] # <<>> /\ IsWord(q[1])
        /\ q[2] # <<>> /\ IsWord(q[2])
        /\ IsWord(q[3])}

ListedUnder(q) == Get(Get(cache.databases, q[1], <<>>), q[2], <<>>)

BoundTo(table) == Get(cache.tables, table, NewTable).aliases

\* C3: when the line up to the cursor has the shape db.schema.partialTable
\* (the partial table may be empty, as in "FROM sales.public."), the request
\* returns one table candidate for every table stored under that database and
\* schema, one alias candidate for every alias bound to each such table, and
\* nothing else.
C3_TableShapeListsTablesAndAliases ==
    \A q \in TableQualifiers(input) :
        ReachedLookup =>
            /\ result.status = "return"
            /\ \A j \in 1..Len(result.cands) :
                   result.cands[j].kind \in {"table or view", "alias"}
            /\ \A w \in Words(result.cands) \cup Range(ListedUnder(q))
                        \cup UNION {BoundTo(t) : t \in Range(ListedUnder(q))} :
                   /\ CountOf(result.cands, w, "table or view")
                        = Cardinality({i \in 1..Len(ListedUnder(q)) : ListedUnder(q)[i] = w})
                   /\ CountOf(result.cands, w, "alias")
                        = Cardinality({i \in 1..Len(ListedUnder(q)) :
                                          w \in BoundTo(ListedUnder(q)[i])})

\* a request for "db.schema." that returned a table and an alias
C3_Witness ==
    /\ ReachedLookup
    /\ TableQualifiers(input) # {}
    /\ result.status = "return"
    /\ \E j \in 1..Len(result.cands) : result.cands[j].kind = "table or view"
    /\ \E j \in 1..Len(result.cands) : result.cands[j].kind = "alias"

\* C4: column candidates are produced only when the column scan matches and
\* the table-reference scan does not; on a line both scans match, only the
\* table-reference branch contributes.
C4_TableReferenceWins ==
    (\E j \in 1..Len(result.cands) : result.cands[j].kind = "col") =>
        (COLUMN_PATTERN(input).matched /\ ~table_regex(input).matched)

\* both scans matched, and the table-reference branch gave candidates
C4_Witness ==
    /\ ReachedLookup
    /\ COLUMN_PATTERN(input).matched
    /\ table_regex(input).matched
    /\ result.status = "return"
    /\ result.cands # <<>>
    /\ \A j \in 1..Len(result.cands) : result.cands[j].kind # "col"

\* <token>.<partial> at the end of the line
ColumnEndings(line) ==
    {q \in {Split(SubSeq(line, Len(pre) + 1, Len(line)), ".") :
               pre \in {x \in Prefixes : StartsAt(line, 1, x)}} :
        Len(q) = 2 /\ q[1] # <<>> /\ IsWord(q[1]) /\ IsWord(q[2])}

\* the tables the token names: by name or by alias, whatever the case
Named(token) ==
    {i \in 1..Len(cache.tables) :
        \/ Upper(cache.tables[i][1]) = Upper(token)
        \/ Upper(token) \in {Upper(a) : a \in cache.tables[i][2].aliases}}

ColumnNames(i) ==
    {cache.tables[i][2].columns[j].name : j \in 1..Len(cache.tables[i][2].columns)}

\* C5: when the line up to the cursor ends in <token>.<partial> and the
\* table-reference scan does not match, the candidates are exactly one column
\* candidate per column of each table that <token> names or is an alias of,
\* whatever identifier.identifier text stands earlier on the line.
C5_ColumnsOfTheTokenAtTheCursor ==
    \A q \in ColumnEndings(input) :
        (ReachedLookup /\ ~table_regex(input).matched) =>
            /\ result.status = "return"
            /\ \A j \in 1..Len(result.cands) : result.cands[j].kind = "col"
            /\ \A w \in Words(result.cands) \cup UNION {ColumnNames(i) : i \in Named(q[1])} :
                   CountOf(result.cands, w, "col")
                     = Cardinality({p \in UNION {{<<i, j>> :
                                                      j \in 1..Len(cache.tables[i][2].columns)} :
                                                  i \in Named(q[1])} :
                                       cache.tables[p[1]][2].columns[p[2]].name = w})

\* a table mapping without its aliases: the keys and their columns
ColumnsOf(tables) == [i \in 1..Len(tables) |-> <<tables[i][1], tables[i][2].columns>>]

Populated(c) == c.databases # <<>> /\ c.tables # <<>>

\* the step is a request that found the pickle missing or a day old or older
FoundStale == path = "none" /\ path' # "none"
              /\ (file.state = "missing" \/ file.age >= TicksPerDay)

Asked(qs, query) == \E i \in 1..Len(qs) : qs[i].query = query

\* C6 as stated: a request that finds the snapshot missing or one day old or
\* older issues introspection queries, whatever the in-memory cache holds.
C6_StaleSnapshotAsksTheWarehouse ==
    path = "rebuild" => queries # <<>>

\* C6, amended: a request that finds the snapshot missing or one day old or
\* older runs _cache_db, which asks for the databases exactly when the
\* database mapping in memory is empty and for columns only when the table
\* mapping in memory is empty; with both populated it asks nothing and writes
\* the snapshot.
C6_QueriesOnlyForEmptyMappings ==
    [][FoundStale =>
          /\ path' = "rebuild"
          /\ Asked(queries', "SHOW DATABASES") <=> (cache.databases = <<>>)
          /\ Asked(queries', "TABLE_QUERY") => (cache.tables = <<>>)
          /\ Populated(cache) => (queries' = <<>> /\ wrote' /\ file'.state = "valid")]_vars

\* a request rebuilt a populated cache without a query
C6_Witness ==
    path = "rebuild" /\ queries = <<>> /\ wrote /\ Populated(cache)

\* C7: a request that finds a snapshot under one day old replaces the database
\* and table mappings in memory by the snapshot's, issues no query and does
\* not write the snapshot.
C7_FreshSnapshotIsLoaded ==
    [][(path = "none" /\ path' # "none"
        /\ file.state = "valid" /\ file.age < TicksPerDay) =>
          /\ path' = "load"
          /\ cache'.databases = file.content.databases
          /\ ColumnsOf(cache'.tables) = ColumnsOf(file.content.tables)
          /\ queries' = <<>>
          /\ ~wrote'
          /\ file' = file]_vars

\* a request loaded a populated snapshot
C7_Witness ==
    /\ path = "load"
    /\ result.status = "return"
    /\ file.state = "valid"
    /\ Populated(cache)
    /\ cache.databases = file.content.databases
    /\ queries = <<>>
    /\ ~wrote

\* C8: when _cache_db runs twice in a row and the cache is populated after the
\* first run, the second run issues no query and leaves the database and
\* table mappings as they are.
C8_SecondRebuildIsSkipped ==
    [][(path = "none" /\ path' = "rebuild" /\ streak >= 1 /\ Populated(cache)) =>
          /\ queries' = <<>>
          /\ cache'.databases = cache.databases
          /\ ColumnsOf(cache'.tables) = ColumnsOf(cache.tables)]_vars

\* _cache_db ran twice in a row, the second time on a populated cache
C8_Witness ==
    streak >= 2 /\ path = "rebuild" /\ queries = <<>> /\ Populated(cache)

\* C9: when the tool fails, by a non-zero exit or by not starting, the query
\* yields no rows (nothing is stored under its database) and the request
\* still returns a list of candidates.
C9_ToolFailureNeverPropagates ==
    \A i \in 1..Len(queries) :
        (path # "none" /\ queries[i].outcome \in {"exit", "spawn"}) =>
            /\ result.status = "return"
            /\ Get(cache.databases, queries[i].dbname, <<>>) = <<>>

ColumnNamesOf(table) ==
    [j \in 1..Len(Get(cache.tables, table, NewTable).columns) |->
        Get(cache.tables, table, NewTable).columns[j].name]

\* C10: a row with fewer fields than the ingestion reads is discarded without
\* an error and the well-formed rows of the listing are all ingested: once
\* the columns of DA are listed, ORD has ID and AMT, and CUS has ID.
C10_ShortRowsAreDiscarded ==
    (path = "rebuild" /\ \E i \in 1..Len(queries) :
                            queries[i] = TableQuery(DA, Ok(<<>>))) =>
        /\ result.err # "IndexError"
        /\ ColumnNamesOf(ORD) = <<ID, AMT>>
        /\ ColumnNamesOf(CUS) = <<ID>>

\* C11: a request that finds the snapshot missing or unreadable raises no
\* error for it: it runs the full rebuild (_cache_db) and goes on to the
\* alias extraction and the lookup.
C11_BadSnapshotFallsBackToRebuild ==
    [][(path = "none" /\ path' # "none" /\ file.state \in {"missing", "corrupt"}) =>
          /\ path' = "rebuild"
          /\ result'.err # "UnpicklingError"]_vars

\* the upper-cased aliases the FROM/JOIN pattern yields for a table in a text
AliasesIn(text, table) ==
    {Upper(h.h5) : h \in {x \in AliasHits[text] : AliasTable(x) = table}}

\* C12: after any sequence of requests, the alias set of every table of the
\* table mapping is exactly the set of upper-cased aliases the FROM/JOIN
\* pattern yields for that table in the buffer of the most recent request.
C12_AliasesAreThoseOfTheLastDocument ==
    path # "none" =>
        \A i \in 1..Len(cache.tables) :
            cache.tables[i][2].aliases = AliasesIn(doc, cache.tables[i][1])

\* the lines that differ from a line in the case of letters only
CaseVariants(line) == {l \in Lines : Len(l) = Len(line) /\ Upper(l) = Upper(line)}

\* C13: the table of a column completion is found whatever the case of the
\* token: a line <token>. that the table-reference scan does not match gets
\* the same candidates as every case variant of it.
C13_ColumnTokenCaseIsIgnored ==
    (ReachedLookup /\ ColumnEndings(input) # {} /\ ~Scans[input].table_match.matched) =>
        \A l \in CaseVariants(input) :
            ~Scans[l].table_match.matched => Lookup(cache, l) = result

\* a token in lower case got the columns of the table
C13_Witness ==
    /\ ReachedLookup
    /\ ColumnEndings(input) # {}
    /\ ~Scans[input].table_match.matched
    /\ \E l \in CaseVariants(input) : l # input /\ ~Scans[l].table_match.matched
    /\ \E q \in ColumnEndings(input) : q[1] # Upper(q[1]) /\ Has(cache.tables, Upper(q[1]))
    /\ result.status = "return"
    /\ \E j \in 1..Len(result.cands) : result.cands[j].kind = "col"

\* the case variants of a line that keep what stands before the qualifier
QualifierVariants(line) ==
    {l \in CaseVariants(line) :
        \E h \in {pre \o k \o ws : pre \in Prefixes, k \in Keywords, ws \in Blanks} :
            StartsAt(line, 1, h) /\ StartsAt(l, 1, h)}

\* C14: the database and the schema of a table reference are found whatever
\* the case they are typed in: lines that differ only in the case of the
\* qualifier ("FROM sales.p" and "FROM SALES.P", "FROM sales.public." and
\* "FROM SALES.PUBLIC.") get the same candidates.
C14_QualifierCaseIsIgnored ==
    (ReachedLookup /\ SchemaQualifiers(input) \cup TableQualifiers(input) # {}) =>
        \A l \in QualifierVariants(input) : Lookup(cache, l) = result

\* the buffers that differ from a buffer in the case of letters only
DocVariants(text) == {d \in Docs : Len(d) = Len(text) /\ Upper(d) = Upper(text)}

\* C15: the alias extractor recognises the keyword in any letter case: a
\* buffer whose table reference starts with "From" binds the aliases that the
\* same buffer with "FROM" binds.
C15_KeywordCaseIsIgnoredByExtractor ==
    ReachedLookup =>
        \A d \in DocVariants(doc) : \A i \in 1..Len(cache.tables) :
            cache.tables[i][2].aliases = AliasesIn(d, cache.tables[i][1])

\* how many identifier characters the line ends in
TrailingRun(line) ==
    CHOOSE k \in 0..Len(line) :
        /\ \A i \in (Len(line) - k + 1)..Len(line) : line[i] \in WordChars
        /\ k < Len(line) => line[Len(line) - k] \notin WordChars

\* C16: get_complete_position returns the offset at which the run of
\* identifier characters that ends the line starts, and -1 when the line
\* does not end in an identifier character.
C16_PositionOfTheTrailingRun ==
    position.called =>
        position.at = IF TrailingRun(input) = 0 THEN -1
                      ELSE Len(input) - TrailingRun(input)

\* the candidates in the order the branches append them (lines 60-95)
Emitted(c, line) ==
    (IF Scans[line].column_match.matched /\ ~Scans[line].table_match.matched
     THEN ColumnLookup(c, Scans[line].column_match.g1).cands ELSE <<>>)
    \o (IF Scans[line].table_match.matched
        THEN TableBranch(c, Scans[line].table_match).cands ELSE <<>>)

\* the candidates of a list that have this word, in the order of the list
WithWord(cands, word) ==
    LET Same(x) == x.word = word IN SelectSeq(cands, Same)

\* C17: the candidates gather_candidates returns are in non-decreasing order
\* of their word, and the candidates of equal word stand in the order they
\* were emitted in.
C17_SortedByWordAndStable ==
    result.status = "return" =>
        /\ \A i \in 1..Len(result.cands) : \A j \in (i + 1)..Len(result.cands) :
               ~TextLess(result.cands[j].word, result.cands[i].word)
        /\ Len(result.cands) = Len(Emitted(cache, input))
        /\ \A w \in Words(result.cands) \cup Words(Emitted(cache, input)) :
               WithWord(result.cands, w) = WithWord(Emitted(cache, input), w)

\* two different candidates of one word were returned, behind a greater word
\* emitted before them
C17_Witness ==
    /\ result.status = "return"
    /\ \E i \in 1..Len(result.cands) : \E j \in (i + 1)..Len(result.cands) :
           result.cands[i].word = result.cands[j].word /\ result.cands[i] # result.cands[j]
    /\ Emitted(cache, input) # result.cands

\* the tables a database mapping lists under some database and schema
ListedTables(databases) ==
    UNION {UNION {Range(databases[i][2][j][2]) : j \in 1..Len(databases[i][2])} :
              i \in 1..Len(databases)}

\* C18: once a rebuild has completed, and in the state a lookup observes,
\* every table listed under a database and schema is a key of the table
\* mapping (in memory and in the snapshot), and no lookup fails on a table
\* or on its aliases being absent.
C18_ListedTablesAreKeys ==
    ReachedLookup =>
        /\ \A t \in ListedTables(cache.databases) : Has(cache.tables, t)
        /\ file.state = "valid" =>
               \A t \in ListedTables(file.content.databases) : Has(file.content.tables, t)
        /\ result.err # "KeyError"

\* a lookup listed the tables of a cache that a failed rebuild left partial
C18_Witness ==
    /\ ReachedLookup
    /\ path = "rebuild"
    /\ ORD \in ListedTables(cache.databases)
    /\ ~Has(cache.tables, CUS)
    /\ result.status = "return"
    /\ \E j \in 1..Len(result.cands) :
           result.cands[j].kind = "table or view" /\ result.cands[j].word = ORD

\* C19: after any sequence of requests the snapshot holds the database
\* mapping and the tables with their columns, and no alias data: no table of
\* the snapshot has an "aliases" entry.
C19_SnapshotHoldsNoAliases ==
    file.state = "valid" =>
        \A i \in 1..Len(file.content.tables) : ~file.content.tables[i][2].hasAliases

\* what a rebuild leaves when queries gave no rows: no database, or a
\* database without a schema
LeftByFailedRebuild(content) ==
    \/ content.databases = <<>>
    \/ \E i \in 1..Len(content.databases) : content.databases[i][2] = <<>>

\* the step is a rebuild in which the tool exited non-zero, and no query of
\* which failed in another way
RebuildWithExit ==
    /\ path = "none" /\ path' = "rebuild"
    /\ \E i \in 1..Len(queries') : queries'[i].outcome = "exit"
    /\ result'.err \notin {"OSError", "IndexError"}

\* the step is a request that finds the snapshot of such a rebuild, under one
\* day old
FindsFailedSnapshot ==
    /\ path = "none" /\ path' # "none"
    /\ file.state = "valid" /\ file.age < TicksPerDay
    /\ LeftByFailedRebuild(file.content)

\* C20: a rebuild whose queries gave no rows because the tool exited non-zero
\* still writes the snapshot, of the empty or partial cache; every request
\* made while that snapshot is under one day old loads it and issues no
\* query.
C20_FailedRebuildIsNotRetried ==
    [][/\ RebuildWithExit =>
              /\ result'.status = "return"
              /\ wrote'
              /\ file'.state = "valid" /\ file'.age = 0
              /\ file'.content.databases = cache'.databases
              /\ LeftByFailedRebuild(file'.content)
       /\ FindsFailedSnapshot =>
              /\ path' = "load"
              /\ queries' = <<>>
              /\ ~wrote'
              /\ file' = file
              /\ cache'.databases = file.content.databases]_vars

\* some time after a failed rebuild, a request loaded its snapshot and asked
\* nothing
C20_Witness ==
    /\ path = "load"
    /\ result.status = "return"
    /\ queries = <<>>
    /\ file.state = "valid"
    /\ file.age >= 1
    /\ LeftByFailedRebuild(file.content)
    /\ cache.databases = file.content.databases

====
